---- MODULE Spec2Model ----
(***************************************************************************)
(* A model of potnet's src/pot/mod.rs: the layered system configuration    *)
(* (SystemConf::from_str, merge, new, is_valid), the bridge registry       *)
(* (BridgeConf::from_str, get_bridges_list), the pot inventory             *)
(* (get_pot_conf_list) and the run-state probe (get_running_pot_list).     *)
(*                                                                         *)
(* Strings are sequences of one-character strings, so that starts_with,    *)
(* split, trim and lines are computed as the code computes them.           *)
(* Option<T> is <<>> (None) or <<x>> (Some(x)).                            *)
(* Address literals are reduced in width: an address is one numeral of     *)
(* AddrBits bits, a digit for the v4 family and a letter for the v6        *)
(* family; a network is an address, "/" and a prefix length.               *)
(***************************************************************************)
EXTENDS Integers, Sequences, FiniteSets, TLC

None == <<>>
Some(x) == <<x>>
IsSome(o) == o /= <<>>
Unwrap(o) == o[1]

Ok(x) == [ok |-> TRUE, val |-> x]
Err(e) == [ok |-> FALSE, err |-> e]

(***************************************************************************)
(* str primitives                                                          *)
(***************************************************************************)
StartsWith(s, p) == Len(s) >= Len(p) /\ SubSeq(s, 1, Len(p)) = p

IsWhitespace(c) == c \in {" ", "\t", "\r", "\n"}

RECURSIVE TrimStart(_)
TrimStart(s) ==
    IF s /= <<>> /\ IsWhitespace(Head(s)) THEN TrimStart(Tail(s)) ELSE s

RECURSIVE TrimEnd(_)
TrimEnd(s) ==
    IF s /= <<>> /\ IsWhitespace(s[Len(s)])
    THEN TrimEnd(SubSeq(s, 1, Len(s) - 1))
    ELSE s

Trim(s) == TrimEnd(TrimStart(s))

\* index of the first occurrence of character c in s, 0 when there is none
RECURSIVE FindFrom(_, _, _)
FindFrom(s, c, i) ==
    IF i > Len(s) THEN 0
    ELSE IF s[i] = c THEN i
    ELSE FindFrom(s, c, i + 1)

Find(s, c) == FindFrom(s, c, 1)

\* s.split(c).nth(0).unwrap(): split always yields a first piece
SplitNth0(s, c) ==
    LET i == Find(s, c) IN
    IF i = 0 THEN s ELSE SubSeq(s, 1, i - 1)

\* s.split(c).nth(1): the piece between the first and the second c
SplitNth1(s, c) ==
    LET i == Find(s, c) IN
    IF i = 0 THEN None
    ELSE Some(SplitNth0(SubSeq(s, i + 1, Len(s)), c))

StripCR(s) ==
    IF s /= <<>> /\ s[Len(s)] = "\r" THEN SubSeq(s, 1, Len(s) - 1) ELSE s

\* str::lines(): split at "\n", a final empty piece is not a line
RECURSIVE Lines(_)
Lines(s) ==
    IF s = <<>> THEN <<>>
    ELSE LET i == Find(s, "\n") IN
         IF i = 0 THEN <<StripCR(s)>>
         ELSE <<StripCR(SubSeq(s, 1, i - 1))>> \o Lines(SubSeq(s, i + 1, Len(s)))

\* .lines().map(|x| x.trim()).filter(|x| !x.starts_with('#'))
RECURSIVE TrimAndDropComments(_)
TrimAndDropComments(ls) ==
    IF ls = <<>> THEN <<>>
    ELSE LET t == Trim(Head(ls)) IN
         IF StartsWith(t, <<"#">>) THEN TrimAndDropComments(Tail(ls))
         ELSE <<t>> \o TrimAndDropComments(Tail(ls))

ConfLines(s) == TrimAndDropComments(Lines(s))

\* match linestr.split('=').nth(1) { Some(s) => Some(s.split(' ').nth(0).unwrap()), None => None }
RawValue(linestr) ==
    LET o == SplitNth1(linestr, "=") IN
    IF IsSome(o) THEN Some(SplitNth0(Unwrap(o), " ")) ELSE None

(***************************************************************************)
(* Addresses and networks (std::net::IpAddr, ipnet::IpNet), reduced width  *)
(***************************************************************************)
AddrBits == 2

RECURSIVE Pow2(_)
Pow2(n) == IF n = 0 THEN 1 ELSE 2 * Pow2(n - 1)

V4Numerals == <<"0", "1", "2", "3", "4", "5", "6", "7", "8", "9">>
V6Numerals == <<"a", "b", "c", "d", "e", "f">>

RECURSIVE IndexOf(_, _, _)
IndexOf(seq, c, i) ==
    IF i > Len(seq) THEN 0
    ELSE IF seq[i] = c THEN i
    ELSE IndexOf(seq, c, i + 1)

NumeralIn(seq, c) ==
    LET i == IndexOf(seq, c, 1) IN
    IF i = 0 \/ i - 1 >= Pow2(AddrBits) THEN None ELSE Some(i - 1)

\* str::parse::<IpAddr>()
ParseIpAddr(s) ==
    IF Len(s) /= 1 THEN None
    ELSE LET v4 == NumeralIn(V4Numerals, s[1])
             v6 == NumeralIn(V6Numerals, s[1])
         IN  IF IsSome(v4) THEN Some([fam |-> 4, val |-> Unwrap(v4)])
             ELSE IF IsSome(v6) THEN Some([fam |-> 6, val |-> Unwrap(v6)])
             ELSE None

PrefixLen(c) ==
    LET i == IndexOf(V4Numerals, c, 1) IN
    IF i = 0 \/ i - 1 > AddrBits THEN None ELSE Some(i - 1)

\* str::parse::<IpNet>(): address "/" prefix length, both mandatory
ParseIpNet(s) ==
    IF Len(s) /= 3 \/ s[2] /= "/" THEN None
    ELSE LET a == ParseIpAddr(<<s[1]>>)
             p == PrefixLen(s[3])
         IN  IF IsSome(a) /\ IsSome(p)
             THEN Some([addr |-> Unwrap(a), prefix |-> Unwrap(p)])
             ELSE None

\* IpNet::contains(&IpAddr): same family and same leading prefix bits
NetContains(net, ip) ==
    /\ net.addr.fam = ip.fam
    /\ net.addr.val \div Pow2(AddrBits - net.prefix)
         = ip.val \div Pow2(AddrBits - net.prefix)

(***************************************************************************)
(* SystemConf                                                              *)
(***************************************************************************)
K_POT_ZFS_ROOT == <<"P","O","T","_","Z","F","S","_","R","O","O","T","=">>
K_POT_FS_ROOT  == <<"P","O","T","_","F","S","_","R","O","O","T","=">>
K_POT_EXTIF    == <<"P","O","T","_","E","X","T","I","F","=">>
K_POT_DNS_NAME == <<"P","O","T","_","D","N","S","_","N","A","M","E","=">>
K_POT_NETWORK  == <<"P","O","T","_","N","E","T","W","O","R","K","=">>
K_POT_NETMASK  == <<"P","O","T","_","N","E","T","M","A","S","K","=">>
K_POT_GATEWAY  == <<"P","O","T","_","G","A","T","E","W","A","Y","=">>
K_POT_DNS_IP   == <<"P","O","T","_","D","N","S","_","I","P","=">>

\* SystemConf::default(): #[derive(Default)], every field None
SystemConfDefault ==
    [zfs_root |-> None, fs_root |-> None, network |-> None, netmask |-> None,
     gateway |-> None, ext_if |-> None, dns_name |-> None, dns_ip |-> None]

\* the value a string-typed key gets from a line
StrField(linestr) == RawValue(linestr)

\* the value an IpNet-typed key gets from a line
NetField(linestr) ==
    LET r == RawValue(linestr) IN
    IF IsSome(r) THEN ParseIpNet(Unwrap(r)) ELSE None

\* the value an IpAddr-typed key gets from a line
AddrField(linestr) ==
    LET r == RawValue(linestr) IN
    IF IsSome(r) THEN ParseIpAddr(Unwrap(r)) ELSE None

\* the body of the for loop of SystemConf::from_str: eight independent ifs
SystemConfLine(c0, l) ==
    LET c1 == IF StartsWith(l, K_POT_ZFS_ROOT) THEN [c0 EXCEPT !.zfs_root = StrField(l)] ELSE c0
        c2 == IF StartsWith(l, K_POT_FS_ROOT)  THEN [c1 EXCEPT !.fs_root = StrField(l)] ELSE c1
        c3 == IF StartsWith(l, K_POT_EXTIF)    THEN [c2 EXCEPT !.ext_if = StrField(l)] ELSE c2
        c4 == IF StartsWith(l, K_POT_DNS_NAME) THEN [c3 EXCEPT !.dns_name = StrField(l)] ELSE c3
        c5 == IF StartsWith(l, K_POT_NETWORK)  THEN [c4 EXCEPT !.network = NetField(l)] ELSE c4
        c6 == IF StartsWith(l, K_POT_NETMASK)  THEN [c5 EXCEPT !.netmask = AddrField(l)] ELSE c5
        c7 == IF StartsWith(l, K_POT_GATEWAY)  THEN [c6 EXCEPT !.gateway = AddrField(l)] ELSE c6
        c8 == IF StartsWith(l, K_POT_DNS_IP)   THEN [c7 EXCEPT !.dns_ip = AddrField(l)] ELSE c7
    IN  c8

RECURSIVE SystemConfFold(_, _)
SystemConfFold(c, ls) ==
    IF ls = <<>> THEN c
    ELSE SystemConfFold(SystemConfLine(c, Head(ls)), Tail(ls))

\* from_str as it would be with the typed parses propagated by `?`
RECURSIVE AnyBadTyped(_)
AnyBadTyped(ls) ==
    IF ls = <<>> THEN FALSE
    ELSE LET l == Head(ls) IN
         \/ StartsWith(l, K_POT_NETWORK) /\ NetField(l) = None
         \/ StartsWith(l, K_POT_NETMASK) /\ AddrField(l) = None
         \/ StartsWith(l, K_POT_GATEWAY) /\ AddrField(l) = None
         \/ StartsWith(l, K_POT_DNS_IP) /\ AddrField(l) = None
         \/ AnyBadTyped(Tail(ls))

SystemConf_from_str_strict(s) ==
    IF AnyBadTyped(ConfLines(s)) THEN Err("parse")
    ELSE Ok(SystemConfFold(SystemConfDefault, ConfLines(s)))

\* SystemConf::from_str: Ok(default) on every path
SystemConf_from_str(s) == Ok(SystemConfFold(SystemConfDefault, ConfLines(s)))

\* is_valid with the last conjunct, dns_ip, left out
is_valid_without_dns_ip(c) ==
    /\ c.zfs_root /= None
    /\ c.fs_root /= None
    /\ c.network /= None
    /\ c.netmask /= None
    /\ c.gateway /= None
    /\ c.ext_if /= None
    /\ c.dns_name /= None

\* SystemConf::is_valid
is_valid(c) ==
    /\ c.zfs_root /= None
    /\ c.fs_root /= None
    /\ c.network /= None
    /\ c.netmask /= None
    /\ c.gateway /= None
    /\ c.ext_if /= None
    /\ c.dns_name /= None
    /\ c.dns_ip /= None

\* merge as it would be with network assigned without the match on rhs.network
merge_network_overwritten(self, rhs) ==
    [zfs_root |-> IF IsSome(rhs.zfs_root) THEN Some(Unwrap(rhs.zfs_root)) ELSE self.zfs_root,
     fs_root  |-> IF IsSome(rhs.fs_root) THEN Some(Unwrap(rhs.fs_root)) ELSE self.fs_root,
     network  |-> rhs.network,
     netmask  |-> IF IsSome(rhs.netmask) THEN Some(Unwrap(rhs.netmask)) ELSE self.netmask,
     gateway  |-> IF IsSome(rhs.gateway) THEN Some(Unwrap(rhs.gateway)) ELSE self.gateway,
     ext_if   |-> IF IsSome(rhs.ext_if) THEN Some(Unwrap(rhs.ext_if)) ELSE self.ext_if,
     dns_name |-> IF IsSome(rhs.dns_name) THEN Some(Unwrap(rhs.dns_name)) ELSE self.dns_name,
     dns_ip   |-> IF IsSome(rhs.dns_ip) THEN Some(Unwrap(rhs.dns_ip)) ELSE self.dns_ip]

\* SystemConf::merge: self after self.merge(rhs)
merge(self, rhs) ==
    [zfs_root |-> IF IsSome(rhs.zfs_root) THEN Some(Unwrap(rhs.zfs_root)) ELSE self.zfs_root,
     fs_root  |-> IF IsSome(rhs.fs_root) THEN Some(Unwrap(rhs.fs_root)) ELSE self.fs_root,
     network  |-> IF IsSome(rhs.network) THEN Some(Unwrap(rhs.network)) ELSE self.network,
     netmask  |-> IF IsSome(rhs.netmask) THEN Some(Unwrap(rhs.netmask)) ELSE self.netmask,
     gateway  |-> IF IsSome(rhs.gateway) THEN Some(Unwrap(rhs.gateway)) ELSE self.gateway,
     ext_if   |-> IF IsSome(rhs.ext_if) THEN Some(Unwrap(rhs.ext_if)) ELSE self.ext_if,
     dns_name |-> IF IsSome(rhs.dns_name) THEN Some(Unwrap(rhs.dns_name)) ELSE self.dns_name,
     dns_ip   |-> IF IsSome(rhs.dns_ip) THEN Some(Unwrap(rhs.dns_ip)) ELSE self.dns_ip]

\* Result::ok().unwrap_or_default() on a Result<SystemConf>
OkOrDefault(r) == IF r.ok THEN r.val ELSE SystemConfDefault

\* SystemConf::new, given what system::get_conf_default() and system::get_conf() return
SystemConf_new(rd, rc) ==
    IF ~rd.ok THEN SystemConfDefault
    ELSE LET dconf == OkOrDefault(SystemConf_from_str(rd.val)) IN
         IF ~rc.ok THEN dconf
         ELSE merge(dconf, OkOrDefault(SystemConf_from_str(rc.val)))

(***************************************************************************)
(* BridgeConf                                                              *)
(***************************************************************************)
K_name    == <<"n", "a", "m", "e", "=">>
K_net     == <<"n", "e", "t", "=">>
K_gateway == <<"g", "a", "t", "e", "w", "a", "y", "=">>

\* BridgeConf::optional_new without the network.contains(&gateway) test
BridgeConf_optional_new_unchecked(o_name, o_network, o_gateway) ==
    IF IsSome(o_name) /\ IsSome(o_network) /\ IsSome(o_gateway)
    THEN Some([name |-> Unwrap(o_name), network |-> Unwrap(o_network),
               gateway |-> Unwrap(o_gateway)])
    ELSE None

\* BridgeConf::optional_new
BridgeConf_optional_new(o_name, o_network, o_gateway) ==
    IF IsSome(o_name)
    THEN IF IsSome(o_network)
         THEN IF IsSome(o_gateway)
              THEN IF NetContains(Unwrap(o_network), Unwrap(o_gateway))
                   THEN Some([name |-> Unwrap(o_name), network |-> Unwrap(o_network),
                              gateway |-> Unwrap(o_gateway)])
                   ELSE None
              ELSE None
         ELSE None
    ELSE None

\* the temp_string of the net= and gateway= branches: the raw value, "" when there is none
TempString(linestr) ==
    LET r == RawValue(linestr) IN
    IF IsSome(r) THEN Unwrap(r) ELSE <<>>

\* the body of the for loop of BridgeConf::from_str: three independent ifs
BridgeConfLine(b0, l) ==
    LET b1 == IF StartsWith(l, K_name) THEN [b0 EXCEPT !.name = RawValue(l)] ELSE b0
        b2 == IF StartsWith(l, K_net)
              THEN [b1 EXCEPT !.network = ParseIpNet(TempString(l))] ELSE b1
        b3 == IF StartsWith(l, K_gateway)
              THEN [b2 EXCEPT !.gateway = ParseIpAddr(TempString(l))] ELSE b2
    IN  b3

RECURSIVE BridgeConfFold(_, _)
BridgeConfFold(b, ls) ==
    IF ls = <<>> THEN b
    ELSE BridgeConfFold(BridgeConfLine(b, Head(ls)), Tail(ls))

\* Option::ok_or
OkOr(o, e) == IF IsSome(o) THEN Ok(Unwrap(o)) ELSE Err(e)

\* BridgeConf::from_str
BridgeConf_from_str(s) ==
    LET b == BridgeConfFold([name |-> None, network |-> None, gateway |-> None],
                            ConfLines(s))
    IN  OkOr(BridgeConf_optional_new(b.name, b.network, b.gateway), "BridgeConfError")

\* the indices of the entries of a directory listing that pass
\* .filter_map(Result::ok).filter(|x| x.file_type().is_file()), in listing order
RECURSIVE FilesOf(_, _)
FilesOf(dir, i) ==
    IF i > Len(dir) THEN <<>>
    ELSE IF dir[i].kind = "file" THEN <<i>> \o FilesOf(dir, i + 1)
    ELSE FilesOf(dir, i + 1)

\* the same with .filter(|x| x.file_type().is_dir())
RECURSIVE DirsOf(_, _)
DirsOf(dir, i) ==
    IF i > Len(dir) THEN <<>>
    ELSE IF dir[i].kind = "dir" THEN <<i>> \o DirsOf(dir, i + 1)
    ELSE DirsOf(dir, i + 1)

(***************************************************************************)
(* PotConf                                                                 *)
(***************************************************************************)
K_ip4          == <<"i", "p", "4", "=">>
K_ip           == <<"i", "p", "=">>
K_vnet         == <<"v", "n", "e", "t", "=">>
K_network_type == <<"n", "e", "t", "w", "o", "r", "k", "_", "t", "y", "p", "e", "=">>

S_inherit        == <<"i", "n", "h", "e", "r", "i", "t">>
S_alias          == <<"a", "l", "i", "a", "s">>
S_public_bridge  == <<"p", "u", "b", "l", "i", "c", "-", "b", "r", "i", "d", "g", "e">>
S_private_bridge == <<"p", "r", "i", "v", "a", "t", "e", "-", "b", "r", "i", "d", "g", "e">>
S_true           == <<"t", "r", "u", "e">>

\* PotConfVerbatim::default()
PotConfVerbatimDefault == [vnet |-> None, ip4 |-> None, ip |-> None, network_type |-> None]

\* Some(s.split('=').nth(1).unwrap().to_string()), s starting with a key that ends in '='
VerbatimValue(s) == Some(Unwrap(SplitNth1(s, "=")))

\* the body of for s in conf_str.lines(): four independent ifs, lines untrimmed
PotConfVerbatimLine(t0, s) ==
    LET t1 == IF StartsWith(s, K_ip4) THEN [t0 EXCEPT !.ip4 = VerbatimValue(s)] ELSE t0
        t2 == IF StartsWith(s, K_ip) THEN [t1 EXCEPT !.ip = VerbatimValue(s)] ELSE t1
        t3 == IF StartsWith(s, K_vnet) THEN [t2 EXCEPT !.vnet = VerbatimValue(s)] ELSE t2
        t4 == IF StartsWith(s, K_network_type)
              THEN [t3 EXCEPT !.network_type = VerbatimValue(s)] ELSE t3
    IN  t4

RECURSIVE PotConfVerbatimFold(_, _)
PotConfVerbatimFold(t, ls) ==
    IF ls = <<>> THEN t
    ELSE PotConfVerbatimFold(PotConfVerbatimLine(t, Head(ls)), Tail(ls))

PotConfVerbatim(conf_str) == PotConfVerbatimFold(PotConfVerbatimDefault, Lines(conf_str))

\* what one iteration of the loop of get_pot_conf_list does after reading the file
Skip == [kind |-> "skip"]
Panic == [kind |-> "panic"]
Push(network_type, ip_addr) ==
    [kind |-> "push", network_type |-> network_type, ip_addr |-> ip_addr]

\* the match on network_type with the unrecognized string taken as the default type
NetTypeOf_lenient(s) ==
    IF s = S_inherit THEN Some("Inherit")
    ELSE IF s = S_alias THEN Some("Alias")
    ELSE IF s = S_public_bridge THEN Some("PublicBridge")
    ELSE IF s = S_private_bridge THEN Some("PrivateBridge")
    ELSE Some("Inherit")

\* match network_type.as_str() { ... _ => continue }: None is the continue
NetTypeOf(s) ==
    IF s = S_inherit THEN Some("Inherit")
    ELSE IF s = S_alias THEN Some("Alias")
    ELSE IF s = S_public_bridge THEN Some("PublicBridge")
    ELSE IF s = S_private_bridge THEN Some("PrivateBridge")
    ELSE None

\* the new-schema branch without the continue on NetType::Alias
ResolveNewSchema_alias_kept(t) ==
    LET nt == NetTypeOf(Unwrap(t.network_type)) IN
    IF nt = None THEN Skip
    ELSE IF Unwrap(nt) \in {"PublicBridge", "PrivateBridge"}
    THEN IF IsSome(t.ip)
         THEN LET a == ParseIpAddr(Unwrap(t.ip)) IN
              IF IsSome(a) THEN Push(Unwrap(nt), Some(Unwrap(a))) ELSE Panic
         ELSE Skip
    ELSE Push(Unwrap(nt), None)

\* the new-schema branch reading ip for every type that is kept
ResolveNewSchema_inherit_reads_ip(t) ==
    LET nt == NetTypeOf(Unwrap(t.network_type)) IN
    IF nt = None THEN Skip
    ELSE IF Unwrap(nt) = "Alias" THEN Skip
    ELSE IF IsSome(t.ip)
    THEN LET a == ParseIpAddr(Unwrap(t.ip)) IN
         IF IsSome(a) THEN Push(Unwrap(nt), Some(Unwrap(a))) ELSE Panic
    ELSE IF Unwrap(nt) \in {"PublicBridge", "PrivateBridge"} THEN Skip
    ELSE Push(Unwrap(nt), None)

\* if let Some(network_type) = temp_pot_conf.network_type { ... }
ResolveNewSchema(t) ==
    LET nt == NetTypeOf(Unwrap(t.network_type)) IN
    IF nt = None THEN Skip
    ELSE IF Unwrap(nt) = "Alias" THEN Skip
    ELSE IF Unwrap(nt) \in {"PublicBridge", "PrivateBridge"}
    THEN IF IsSome(t.ip)
         THEN LET a == ParseIpAddr(Unwrap(t.ip)) IN
              IF IsSome(a) THEN Push(Unwrap(nt), Some(Unwrap(a))) ELSE Panic
         ELSE Skip
    ELSE Push(Unwrap(nt), None)

\* the legacy branch with the vnet test the other way round
ResolveLegacy_vnet_swapped(t) ==
    IF Unwrap(t.ip4) = S_inherit THEN Push("Inherit", None)
    ELSE LET a == ParseIpAddr(Unwrap(t.ip4)) IN
         IF a = None THEN Panic
         ELSE IF IsSome(t.vnet)
         THEN IF Unwrap(t.vnet) = S_true
              THEN Push("Alias", Some(Unwrap(a)))
              ELSE Push("PublicBridge", Some(Unwrap(a)))
         ELSE Skip

\* else if let Some(ip4) = temp_pot_conf.ip4 { ... }: the address is parsed
\* (and unwrapped) before vnet is looked at
ResolveLegacy(t) ==
    IF Unwrap(t.ip4) = S_inherit THEN Push("Inherit", None)
    ELSE LET a == ParseIpAddr(Unwrap(t.ip4)) IN
         IF a = None THEN Panic
         ELSE IF IsSome(t.vnet)
         THEN IF Unwrap(t.vnet) = S_true
              THEN Push("PublicBridge", Some(Unwrap(a)))
              ELSE Push("Alias", Some(Unwrap(a)))
         ELSE Skip

\* the schema dispatch of get_pot_conf_list on the text of pot.conf
ResolvePot(conf_str) ==
    LET t == PotConfVerbatim(conf_str) IN
    IF IsSome(t.network_type) THEN ResolveNewSchema(t)
    ELSE IF IsSome(t.ip4) THEN ResolveLegacy(t)
    ELSE Skip

\* PotConf::default() with its name set
PotConf(name, network_type, ip_addr) ==
    [name |-> name, ip_addr |-> ip_addr, network_type |-> network_type]

(***************************************************************************)
(* The run-state probe                                                     *)
(***************************************************************************)
\* what Command::status() gives for /usr/sbin/jls -j name
ProbeOutcomes == {"spawn_error", "exit_success", "exit_failure"}

\* is_pot_running with every exit status taken as running
is_pot_running_any_exit(status) ==
    IF status /= "spawn_error" THEN Ok(TRUE) ELSE Err("JlsError")

\* is_pot_running
is_pot_running(status) ==
    IF status /= "spawn_error" THEN Ok(status = "exit_success") ELSE Err("JlsError")

(***************************************************************************)
(* Inputs of the system-configuration operations                           *)
(***************************************************************************)
MaxConfLines == 2
MaxMerges == 2

RECURSIVE Join(_)
Join(ls) ==
    IF ls = <<>> THEN <<>>
    ELSE IF Len(ls) = 1 THEN Head(ls)
    ELSE Head(ls) \o <<"\n">> \o Join(Tail(ls))

RECURSIVE SeqsUpTo(_, _)
SeqsUpTo(S, n) ==
    IF n = 0 THEN {<<>>}
    ELSE LET shorter == SeqsUpTo(S, n - 1) IN
         shorter \cup {Append(q, e) : q \in shorter, e \in S}

\* one line per key with a value of the key's type
LinesA ==
    <<K_POT_ZFS_ROOT \o <<"z">>, K_POT_FS_ROOT \o <<"/", "p">>, K_POT_EXTIF \o <<"e">>,
      K_POT_NETWORK \o <<"2", "/", "1">>, K_POT_NETMASK \o <<"2">>,
      K_POT_GATEWAY \o <<"3">>, K_POT_DNS_IP \o <<"2">>, K_POT_DNS_NAME \o <<"d">>>>

LinesB ==
    <<K_POT_ZFS_ROOT \o <<"y">>, K_POT_FS_ROOT \o <<"/", "q">>, K_POT_EXTIF \o <<"i">>,
      K_POT_NETWORK \o <<"a", "/", "2">>, K_POT_NETMASK \o <<"c">>,
      K_POT_GATEWAY \o <<"a">>, K_POT_DNS_IP \o <<"b">>, K_POT_DNS_NAME \o <<"n">>>>

FullTextA == Join(LinesA)
FullTextB == Join(LinesB)

\* a typed key whose value does not parse as the key's type
BadTypedLines ==
    {K_POT_NETWORK \o <<"2">>, K_POT_NETMASK \o <<"2", "/", "1">>,
     K_POT_GATEWAY \o <<"x">>, K_POT_DNS_IP \o <<>>}

OddLines ==
    {<<"#", " ", "c">>,
     <<" ", "#", " ">> \o K_POT_GATEWAY \o <<"1">>,
     K_POT_DNS_NAME \o <<"F", " ", "#", " ", "c">>,
     K_POT_DNS_NAME \o <<"\"", "F", "\"">>,
     K_POT_DNS_NAME \o <<"a", "=", "b">>,
     <<" ", "\t">> \o K_POT_GATEWAY \o <<"1", " ", "\r">>,
     <<"j", "u", "n", "k">>,
     <<>>}

ConfLineSet ==
    {LinesA[i] : i \in 1..Len(LinesA)} \cup BadTypedLines \cup OddLines

ConfTexts ==
    {Join(ls) : ls \in SeqsUpTo(ConfLineSet, MaxConfLines)} \cup {FullTextA, FullTextB}

\* the texts a configuration layer holds in SystemConf::new
LayerTexts ==
    {<<>>, FullTextA, FullTextB, <<"#", " ", "c">>,
     K_POT_DNS_NAME \o <<"n">>,
     K_POT_NETWORK \o <<"2">>,
     Join(<<K_POT_GATEWAY \o <<"1">>, K_POT_EXTIF \o <<"i">>>>)}

\* what system::get_conf_default() and system::get_conf() return: io::Result<String>
ReadOutcomes == {Err("io")} \cup {Ok(t) : t \in LayerTexts}

\* all eight keys, with an empty interface name and a gateway of the other
\* family than the network
OddFullText ==
    Join(<<LinesA[1], LinesA[2], K_POT_EXTIF, LinesA[4], LinesA[5],
           K_POT_GATEWAY \o <<"a">>, LinesA[7], K_POT_DNS_NAME \o <<"\"", "\"">>>>)

\* the configurations is_valid is asked about: the parses of three
\* eight-key texts, each with any of its fields absent (the parse of the
\* text without the lines of those keys)
ValidityConfs ==
    {[f \in DOMAIN SystemConfDefault |-> IF f \in S THEN c[f] ELSE None] :
        S \in SUBSET (DOMAIN SystemConfDefault),
        c \in {OkOrDefault(SystemConf_from_str(t)) : t \in {FullTextA, FullTextB, OddFullText}}}

\* the configurations merge is applied to: results of from_str
MergeTexts ==
    {<<>>, FullTextA, FullTextB,
     Join(<<LinesA[1], LinesA[4], LinesA[8]>>)}
        \cup {LinesB[i] : i \in 1..Len(LinesB)}

MergeConfs == {OkOrDefault(SystemConf_from_str(t)) : t \in MergeTexts}

(***************************************************************************)
(* Inputs of the bridge operations                                         *)
(***************************************************************************)
MaxBridgeLines == 3
MaxBridgeFiles == 2

BridgeLineSet ==
    {K_name \o <<"b">>,
     K_net \o <<"2", "/", "1">>,
     K_net \o <<"2">>,
     K_net \o <<"a", "/", "1">>,
     K_gateway \o <<"3">>,
     K_gateway \o <<"1">>,
     K_gateway \o <<"b">>,
     K_gateway \o <<"x">>,
     <<"#", " ">> \o K_name \o <<"c">>,
     <<" ">> \o K_gateway \o <<"3", " ", "#", " ", "g">>}

BridgeTexts == {Join(ls) : ls \in SeqsUpTo(BridgeLineSet, MaxBridgeLines)}

\* the contents of the files of fs_root/bridges
BridgeFileTexts ==
    {<<>>,
     Join(<<K_name \o <<"b">>, K_net \o <<"2", "/", "1">>, K_gateway \o <<"3">>>>),
     Join(<<K_net \o <<"a", "/", "1">>, K_gateway \o <<"b">>, K_name \o <<"c">>>>),
     Join(<<K_name \o <<"b">>, K_net \o <<"2", "/", "1">>, K_gateway \o <<"1">>>>)}

\* an entry of the directory walk: what WalkDir yields for it and, for a
\* file, what File::open and read_to_string give
BridgeDirEntries ==
    {[kind |-> "err", file |-> Err("open")],
     [kind |-> "dir", file |-> Err("open")],
     [kind |-> "file", file |-> Err("open")],
     [kind |-> "file", file |-> Err("read")]}
        \cup {[kind |-> "file", file |-> Ok(t)] : t \in BridgeFileTexts}

BridgeDirs == SeqsUpTo(BridgeDirEntries, MaxBridgeFiles)

ValidConfA == OkOrDefault(SystemConf_from_str(FullTextA))

\* the configurations the enumerations are called with
CallerConfs ==
    {SystemConfDefault,
     ValidConfA,
     [ValidConfA EXCEPT !.dns_ip = None],
     [SystemConfDefault EXCEPT !.fs_root = ValidConfA.fs_root],
     [ValidConfA EXCEPT !.fs_root = None]}

(***************************************************************************)
(* Inputs of the pot inventory and of the run-state probe                  *)
(***************************************************************************)
MaxPots == 2

\* the names of the entries of fs_root/jails, by position in the listing
DirNames == <<"p1", "p2", "p3", "p4", "p5">>

Absent == <<"-">>

\* the text of a pot.conf from a choice of line (or Absent) for each key
PotText(ls) == Join(SelectSeq(ls, LAMBDA l : l /= Absent))

NetworkTypeLines ==
    {Absent, K_network_type \o S_inherit, K_network_type \o S_alias,
     K_network_type \o S_public_bridge, K_network_type \o S_private_bridge,
     K_network_type \o <<"n", "a", "t">>}

IpLines == {Absent, K_ip \o <<"2">>, K_ip \o <<"x">>}

Ip4Lines == {Absent, K_ip4 \o S_inherit, K_ip4 \o <<"1">>, K_ip4 \o <<"x">>}

VnetLines == {Absent, K_vnet \o S_true, K_vnet \o <<"f", "a", "l", "s", "e">>}

\* every combination of the four keys, and a few texts off that grid
PotTexts ==
    {PotText(<<n, i, f, w>>) :
        n \in NetworkTypeLines, i \in IpLines, f \in Ip4Lines, w \in VnetLines}
    \cup
    {Join(<<K_vnet \o S_true, K_ip4 \o <<"1">>, K_vnet \o <<"n", "o">>>>),
     Join(<<K_network_type \o S_alias, K_network_type \o S_inherit>>),
     Join(<<<<" ">> \o K_network_type \o S_alias, K_ip4 \o <<"1">>, K_vnet \o S_true>>),
     Join(<<K_ip4 \o <<"1">>, K_vnet \o S_true \o <<" ">>>>),
     Join(<<K_ip4 \o <<"1", "=", "x">>, K_vnet \o S_true \o <<"\r">>, <<>>>>),
     Join(<<K_network_type \o S_public_bridge, K_ip \o <<"b">>, K_ip \o <<"x">>, K_ip \o <<"c">>>>)}

\* an entry of the walk of fs_root/jails: what WalkDir yields, whether the
\* name is UTF-8, and what opening and reading conf/pot.conf give
PotDir(file) == [kind |-> "dir", utf8 |-> TRUE, file |-> file]

\* the entries of the listings of one directory
SinglePotEntries == {PotDir(Ok(t)) : t \in PotTexts}

\* the entries of the longer listings
PotEntries ==
    {[kind |-> "file", utf8 |-> TRUE, file |-> Err("open")],
     [kind |-> "err", utf8 |-> TRUE, file |-> Err("open")],
     [kind |-> "dir", utf8 |-> FALSE, file |-> Ok(K_network_type \o S_inherit)],
     PotDir(Err("open")),
     PotDir(Err("read")),
     PotDir(Ok(K_network_type \o S_inherit)),
     PotDir(Ok(Join(<<K_network_type \o S_private_bridge, K_ip \o <<"2">>>>))),
     PotDir(Ok(Join(<<K_network_type \o S_public_bridge, K_ip \o <<"x">>>>))),
     PotDir(Ok(Join(<<K_network_type \o S_alias, K_ip \o <<"2">>>>))),
     PotDir(Ok(Join(<<K_ip4 \o <<"1">>, K_vnet \o <<"f", "a", "l", "s", "e">>>>))),
     PotDir(Ok(Join(<<K_ip4 \o <<"x">>, K_vnet \o S_true>>)))}

JailDirs ==
    {<<e>> : e \in SinglePotEntries} \cup SeqsUpTo(PotEntries, MaxPots)

\* the listings the probe is run over: only kind and utf8 matter to it
ProbeEntries ==
    {[kind |-> "file", utf8 |-> TRUE, file |-> Err("open")],
     [kind |-> "dir", utf8 |-> FALSE, file |-> Err("open")],
     PotDir(Err("open"))}

ProbeDirs == SeqsUpTo(ProbeEntries, MaxPots + 1)

(***************************************************************************)
(* State                                                                   *)
(***************************************************************************)
VARIABLES
    op,         \* the operation that ran last
    text,       \* SystemConf::from_str: its argument
    parsed,     \* SystemConf::from_str: its result
    rd, rc,     \* SystemConf::new: what the two sources returned
    loaded,     \* SystemConf::new: its result
    start,      \* merge: self before the first merge
    before,     \* merge: self before the last merge
    rhs,        \* merge: the argument of the last merge
    self,       \* merge: self now
    nmerges,    \* merge: merges applied to self
    vconf,      \* is_valid: the configuration it is called on
    valid,      \* is_valid: its result
    btext,      \* BridgeConf::from_str: its argument
    bres,       \* BridgeConf::from_str: its result
    bconf,      \* get_bridges_list: the configuration it is called with
    bdir,       \* the listing of fs_root/bridges
    bpaths,     \* get_bridges_list: path_list, as indices of bdir
    bi,         \* get_bridges_list: position of the for loop in path_list
    bresult,    \* get_bridges_list: result
    bpc,        \* get_bridges_list: "idle", "loop", "done" or "panic"
    pconf,      \* get_pot_conf_list: the configuration it is called with
    jails,      \* the listing of fs_root/jails
    ppaths,     \* get_pot_conf_list: get_pot_path_list(&conf), as indices of jails
    pi,         \* get_pot_conf_list: position of the for loop in ppaths
    v,          \* get_pot_conf_list: v
    ppc,        \* get_pot_conf_list: "idle", "loop", "done" or "panic"
    rconf,      \* get_running_pot_list: the configuration it is called with
    rdir,       \* the listing of fs_root/jails it runs over
    rnames,     \* get_running_pot_list: get_pot_list(conf)
    ri,         \* get_running_pot_list: position of the for loop in rnames
    probes,     \* what jls gave for each name probed so far
    running,    \* get_running_pot_list: result
    rpc         \* get_running_pot_list: "idle", "loop", "done" or "panic"

sysVars ==
    <<text, parsed, rd, rc, loaded, start, before, rhs, self, nmerges, vconf, valid>>
bridgeVars == <<btext, bres, bconf, bdir, bpaths, bi, bresult, bpc>>
potVars == <<pconf, jails, ppaths, pi, v, ppc>>
runVars == <<rconf, rdir, rnames, ri, probes, running, rpc>>
vars == <<op, sysVars, bridgeVars, potVars, runVars>>

InitSys ==
    /\ text = <<>>
    /\ parsed = Ok(SystemConfDefault)
    /\ rd = Err("io")
    /\ rc = Err("io")
    /\ loaded = SystemConfDefault
    /\ start = SystemConfDefault
    /\ before = SystemConfDefault
    /\ rhs = SystemConfDefault
    /\ self = SystemConfDefault
    /\ nmerges = 0
    /\ vconf = SystemConfDefault
    /\ valid = FALSE

\* SystemConf::from_str(t)
Parse ==
    /\ op = "idle"
    /\ \E t \in ConfTexts :
         /\ text' = t
         /\ parsed' = SystemConf_from_str(t)
    /\ op' = "parse"
    /\ UNCHANGED <<rd, rc, loaded, start, before, rhs, self, nmerges, vconf, valid>>
    /\ UNCHANGED <<bridgeVars, potVars, runVars>>

\* SystemConf::new()
Load ==
    /\ op = "idle"
    /\ \E d \in ReadOutcomes, c \in ReadOutcomes :
         /\ rd' = d
         /\ rc' = c
         /\ loaded' = SystemConf_new(d, c)
    /\ op' = "load"
    /\ UNCHANGED <<text, parsed, start, before, rhs, self, nmerges, vconf, valid>>
    /\ UNCHANGED <<bridgeVars, potVars, runVars>>

\* let mut uut = ...: the configuration the merges are applied to
MergeStart ==
    /\ op = "idle"
    /\ \E c \in MergeConfs :
         /\ start' = c
         /\ before' = c
         /\ self' = c
    /\ op' = "merge"
    /\ UNCHANGED <<text, parsed, rd, rc, loaded, rhs, nmerges, vconf, valid>>
    /\ UNCHANGED <<bridgeVars, potVars, runVars>>

\* uut.merge(r)
Merge ==
    /\ op = "merge"
    /\ nmerges < MaxMerges
    /\ \E r \in MergeConfs :
         /\ rhs' = r
         /\ before' = self
         /\ self' = merge(self, r)
    /\ nmerges' = nmerges + 1
    /\ UNCHANGED <<op, text, parsed, rd, rc, loaded, start, vconf, valid>>
    /\ UNCHANGED <<bridgeVars, potVars, runVars>>

\* c.is_valid()
IsValid ==
    /\ op = "idle"
    /\ \E c \in ValidityConfs :
         /\ vconf' = c
         /\ valid' = is_valid(c)
    /\ op' = "is_valid"
    /\ UNCHANGED <<text, parsed, rd, rc, loaded, start, before, rhs, self, nmerges>>
    /\ UNCHANGED <<bridgeVars, potVars, runVars>>

NextSys == Parse \/ Load \/ MergeStart \/ Merge \/ IsValid

(***************************************************************************)
(* The bridge registry                                                     *)
(***************************************************************************)
InitBridge ==
    /\ btext = <<>>
    /\ bres = Err("BridgeConfError")
    /\ bpaths = <<>>
    /\ bi = 1
    /\ bresult = <<>>
    /\ bpc = "idle"

    /\ bconf = SystemConfDefault
    /\ bdir = <<>>

\* BridgeConf::from_str(t)
LoadBridge ==
    /\ op = "idle"
    /\ \E t \in BridgeTexts :
         /\ btext' = t
         /\ bres' = BridgeConf_from_str(t)
    /\ op' = "load_bridge"
    /\ UNCHANGED <<bconf, bdir, bpaths, bi, bresult, bpc>>
    /\ UNCHANGED <<sysVars, potVars, runVars>>

\* get_bridges_list(c), with d the listing of fs_root/bridges, up to its for
\* loop: get_bridges_path_list(conf), whose conf.fs_root.clone().unwrap()
\* panics on None
GetBridgesList ==
    /\ op = "idle"
    /\ op' = "get_bridges_list"
    /\ \E c \in CallerConfs, d \in BridgeDirs :
         /\ bconf' = c
         /\ bdir' = d
         /\ IF c.fs_root = None
            THEN /\ bpc' = "panic"
                 /\ UNCHANGED <<bpaths, bi, bresult>>
            ELSE /\ bpaths' = FilesOf(d, 1)
                 /\ bi' = 1
                 /\ bresult' = <<>>
                 /\ bpc' = "loop"
    /\ UNCHANGED <<btext, bres>>
    /\ UNCHANGED <<sysVars, potVars, runVars>>

\* one iteration of for f in path_list
BridgesStep ==
    /\ bpc = "loop"
    /\ bi <= Len(bpaths)
    /\ LET f == bdir[bpaths[bi]].file IN
       IF ~f.ok
       THEN UNCHANGED bresult
       ELSE LET r == BridgeConf_from_str(f.val) IN
            IF r.ok THEN bresult' = Append(bresult, r.val)
            ELSE UNCHANGED bresult
    /\ bi' = bi + 1
    /\ UNCHANGED <<op, btext, bres, bconf, bdir, bpaths, bpc>>
    /\ UNCHANGED <<sysVars, potVars, runVars>>

\* the loop is over: result is returned
BridgesReturn ==
    /\ bpc = "loop"
    /\ bi > Len(bpaths)
    /\ bpc' = "done"
    /\ UNCHANGED <<op, btext, bres, bconf, bdir, bpaths, bi, bresult>>
    /\ UNCHANGED <<sysVars, potVars, runVars>>

NextBridge == LoadBridge \/ GetBridgesList \/ BridgesStep \/ BridgesReturn

(***************************************************************************)
(* The pot inventory                                                       *)
(***************************************************************************)
InitPot ==
    /\ pconf = SystemConfDefault
    /\ jails = <<>>
    /\ ppaths = <<>>
    /\ pi = 1
    /\ v = <<>>
    /\ ppc = "idle"

\* get_pot_conf_list without its is_valid guard: get_pot_path_list is called
\* at once, and unwraps fs_root
GetPotConfList_unguarded ==
    /\ op = "idle"
    /\ op' = "get_pot_conf_list"
    /\ \E c \in CallerConfs, d \in JailDirs :
         /\ pconf' = c
         /\ jails' = d
         /\ v' = <<>>
         /\ pi' = 1
         /\ IF c.fs_root = None
            THEN /\ ppc' = "panic"
                 /\ UNCHANGED ppaths
            ELSE /\ ppaths' = DirsOf(d, 1)
                 /\ ppc' = "loop"
    /\ UNCHANGED <<sysVars, bridgeVars, runVars>>

\* get_pot_conf_list(c), with d the listing of fs_root/jails, up to its for
\* loop: an invalid configuration returns the empty v at once
GetPotConfList ==
    /\ op = "idle"
    /\ op' = "get_pot_conf_list"
    /\ \E c \in CallerConfs, d \in JailDirs :
         /\ pconf' = c
         /\ jails' = d
         /\ v' = <<>>
         /\ pi' = 1
         /\ IF ~is_valid(c)
            THEN /\ ppc' = "done"
                 /\ UNCHANGED ppaths
            ELSE /\ ppaths' = DirsOf(d, 1)
                 /\ ppc' = "loop"
    /\ UNCHANGED <<sysVars, bridgeVars, runVars>>

\* one iteration of for mut dir_path in get_pot_path_list(&conf): the name
\* (to_str().unwrap() panics on a name that is not UTF-8), the file, the
\* resolution of its text
PotStep ==
    /\ ppc = "loop"
    /\ pi <= Len(ppaths)
    /\ LET e == jails[ppaths[pi]]
           r == IF ~e.utf8 THEN Panic
                ELSE IF ~e.file.ok THEN Skip
                ELSE ResolvePot(e.file.val)
       IN  IF r.kind = "panic"
           THEN /\ ppc' = "panic"
                /\ UNCHANGED <<pi, v>>
           ELSE /\ v' = IF r.kind = "push"
                        THEN Append(v, PotConf(DirNames[ppaths[pi]], r.network_type,
                                               r.ip_addr))
                        ELSE v
                /\ pi' = pi + 1
                /\ UNCHANGED ppc
    /\ UNCHANGED <<op, pconf, jails, ppaths>>
    /\ UNCHANGED <<sysVars, bridgeVars, runVars>>

\* the loop is over: v is returned
PotReturn ==
    /\ ppc = "loop"
    /\ pi > Len(ppaths)
    /\ ppc' = "done"
    /\ UNCHANGED <<op, pconf, jails, ppaths, pi, v>>
    /\ UNCHANGED <<sysVars, bridgeVars, runVars>>

NextPot == GetPotConfList \/ PotStep \/ PotReturn

(***************************************************************************)
(* The run-state probe                                                     *)
(***************************************************************************)
InitRun ==
    /\ rconf = SystemConfDefault
    /\ rdir = <<>>
    /\ rnames = <<>>
    /\ ri = 1
    /\ probes = <<>>
    /\ running = <<>>
    /\ rpc = "idle"

\* get_pot_list over the directories of a listing: a name that is not
\* UTF-8 is left out
RECURSIVE PotListOf(_, _)
PotListOf(dir, paths) ==
    IF paths = <<>> THEN <<>>
    ELSE IF dir[Head(paths)].utf8
    THEN <<DirNames[Head(paths)]>> \o PotListOf(dir, Tail(paths))
    ELSE PotListOf(dir, Tail(paths))

\* get_running_pot_list(c), with d the listing of fs_root/jails, up to its
\* for loop: get_pot_list(conf), whose get_pot_path_list unwraps fs_root
GetRunningPotList ==
    /\ op = "idle"
    /\ op' = "get_running_pot_list"
    /\ \E c \in CallerConfs, d \in ProbeDirs :
         /\ rconf' = c
         /\ rdir' = d
         /\ IF c.fs_root = None
            THEN /\ rpc' = "panic"
                 /\ UNCHANGED <<rnames, ri, probes, running>>
            ELSE /\ rnames' = PotListOf(d, DirsOf(d, 1))
                 /\ ri' = 1
                 /\ probes' = <<>>
                 /\ running' = <<>>
                 /\ rpc' = "loop"
    /\ UNCHANGED <<sysVars, bridgeVars, potVars>>

\* one iteration of for pot in get_pot_list(conf)
RunningStep ==
    /\ rpc = "loop"
    /\ ri <= Len(rnames)
    /\ \E status \in ProbeOutcomes :
         /\ probes' = Append(probes, status)
         /\ LET r == is_pot_running(status) IN
            running' = IF r.ok /\ r.val THEN Append(running, rnames[ri]) ELSE running
    /\ ri' = ri + 1
    /\ UNCHANGED <<op, rconf, rdir, rnames, rpc>>
    /\ UNCHANGED <<sysVars, bridgeVars, potVars>>

\* the loop is over: result is returned
RunningReturn ==
    /\ rpc = "loop"
    /\ ri > Len(rnames)
    /\ rpc' = "done"
    /\ UNCHANGED <<op, rconf, rdir, rnames, ri, probes, running>>
    /\ UNCHANGED <<sysVars, bridgeVars, potVars>>

NextRun == GetRunningPotList \/ RunningStep \/ RunningReturn

(***************************************************************************)
(* Specifications: one per component, each from the idle state             *)
(***************************************************************************)
Init == op = "idle" /\ InitSys /\ InitBridge /\ InitPot /\ InitRun

SpecSys == Init /\ [][NextSys]_vars

SpecBridge == Init /\ [][NextBridge]_vars

SpecPot == Init /\ [][NextPot]_vars

SpecRun == Init /\ [][NextRun]_vars

(***************************************************************************)
(* Properties of the system configuration                                  *)
(***************************************************************************)
\* the last line of ls that starts with key, None when there is none
RECURSIVE LastLineWith(_, _)
LastLineWith(ls, key) ==
    IF ls = <<>> THEN None
    ELSE IF StartsWith(ls[Len(ls)], key) THEN Some(ls[Len(ls)])
    ELSE LastLineWith(SubSeq(ls, 1, Len(ls) - 1), key)

FieldNames ==
    {"zfs_root", "fs_root", "network", "netmask", "gateway", "ext_if", "dns_name", "dns_ip"}

AllAbsent(c) == \A f \in FieldNames : c[f] = None
AllPresent(c) == \A f \in FieldNames : c[f] /= None

\* C1 (as claimed): in load() a source that cannot be read makes only its own
\* layer all-absent: with the default source unreadable and the override
\* readable the result is parse(override text), with only the override
\* unreadable it is parse(default text).
C1_LayersIndependent ==
    op = "load" =>
        /\ (~rd.ok /\ rc.ok => loaded = SystemConf_from_str(rc.val).val)
        /\ (rd.ok /\ ~rc.ok => loaded = SystemConf_from_str(rd.val).val)
        /\ (~rd.ok /\ ~rc.ok => loaded = SystemConfDefault)

\* C5: merge is right-biased field by field: after self.merge(rhs) each field
\* is rhs's when rhs's is present and self's previous value otherwise; so an
\* all-absent rhs changes nothing, an all-absent self becomes rhs, two fully
\* populated configurations give the second, and a field present before any
\* of the merges is present after them (a valid configuration stays valid).
C5_MergeRightBiased ==
    (op = "merge" /\ nmerges > 0) =>
        /\ \A f \in FieldNames :
             self[f] = IF rhs[f] /= None THEN rhs[f] ELSE before[f]
        /\ (AllAbsent(rhs) => self = before)
        /\ (AllAbsent(before) => self = rhs)
        /\ (AllPresent(before) /\ AllPresent(rhs) => self = rhs)
        /\ \A f \in FieldNames : start[f] /= None => self[f] /= None
        /\ (is_valid(start) => is_valid(self))

\* a second merge in which rhs replaces a present field by another value and
\* leaves a present field of self alone
C5_Witness ==
    /\ op = "merge"
    /\ nmerges = 2
    /\ \E f, g \in FieldNames :
         /\ rhs[f] /= None /\ before[f] /= None /\ rhs[f] /= before[f]
         /\ rhs[g] = None /\ before[g] /= None /\ self[g] = before[g]

\* C12: is_valid is true exactly when all eight fields are present: the
\* default configuration is not valid, a valid configuration with any one
\* field made absent is not valid, and the content of the fields plays no part.
C12_IsValidIffAllPresent ==
    op = "is_valid" =>
        /\ valid <=> AllPresent(vconf)
        /\ vconf = SystemConfDefault => ~valid
        /\ valid => \A f \in FieldNames : ~is_valid([vconf EXCEPT ![f] = None])

\* the eight-key text without its POT_DNS_IP line: seven fields, not valid
C12_Witness ==
    /\ op = "is_valid"
    /\ vconf = [ValidConfA EXCEPT !.dns_ip = None]
    /\ ~valid

\* all eight fields present with odd contents: valid
C12_WitnessValid ==
    /\ op = "is_valid"
    /\ vconf.ext_if = Some(<<>>)
    /\ vconf.gateway = Some([fam |-> 6, val |-> 0])
    /\ valid

RemoveAt(q, i) == SubSeq(q, 1, i - 1) \o SubSeq(q, i + 1, Len(q))

TypedKeys ==
    {[key |-> K_POT_NETWORK, field |-> "network"],
     [key |-> K_POT_NETMASK, field |-> "netmask"],
     [key |-> K_POT_GATEWAY, field |-> "gateway"],
     [key |-> K_POT_DNS_IP, field |-> "dns_ip"]}

AllKeys ==
    {K_POT_ZFS_ROOT, K_POT_FS_ROOT, K_POT_EXTIF, K_POT_DNS_NAME,
     K_POT_NETWORK, K_POT_NETMASK, K_POT_GATEWAY, K_POT_DNS_IP}

\* line l is a line of key k whose value does not parse as k's type
BadTypedLine(l, k) ==
    /\ StartsWith(l, k.key)
    /\ IF k.field = "network" THEN NetField(l) = None ELSE AddrField(l) = None

\* C9: SystemConf::from_str returns a value for every text (the empty text,
\* comments and garbage give the all-absent configuration), and a typed key
\* whose value does not parse leaves its field absent and every other field
\* as it is without that line.
C9_ParseNeverFails ==
    op = "parse" =>
        LET ls == Lines(text) IN
        /\ parsed.ok
        /\ DOMAIN parsed.val = FieldNames
        /\ ((\A i \in 1..Len(ls) :
                \/ StartsWith(Trim(ls[i]), <<"#">>)
                \/ \A k \in AllKeys : ~StartsWith(Trim(ls[i]), k))
            => parsed.val = SystemConfDefault)
        /\ \A i \in 1..Len(ls), k \in TypedKeys :
             (/\ BadTypedLine(Trim(ls[i]), k)
              /\ \A j \in (i + 1)..Len(ls) : ~StartsWith(Trim(ls[j]), k.key))
             => /\ parsed.val[k.field] = None
                /\ \A g \in FieldNames \ {k.field} :
                     parsed.val[g] = SystemConf_from_str(Join(RemoveAt(ls, i))).val[g]

\* the whole of a line after its first '=', cut at the first space
ValueAsClaimed(l) == SplitNth0(SubSeq(l, Find(l, "=") + 1, Len(l)), " ")

StringKeys ==
    {[key |-> K_POT_ZFS_ROOT, field |-> "zfs_root"],
     [key |-> K_POT_FS_ROOT, field |-> "fs_root"],
     [key |-> K_POT_EXTIF, field |-> "ext_if"],
     [key |-> K_POT_DNS_NAME, field |-> "dns_name"]}

\* C13 (as claimed): for a line that starts with a recognized KEY= the raw
\* value is everything after the first '=' up to the first space, quotes and
\* further '=' characters included; an inline comment after a space is dropped.
C13_ValueAfterFirstEquals ==
    op = "parse" =>
        LET ls == ConfLines(text) IN
        /\ \A k \in StringKeys :
             LET l == LastLineWith(ls, k.key) IN
             l /= None => parsed.val[k.field] = Some(ValueAsClaimed(Unwrap(l)))
        /\ \A k \in TypedKeys :
             LET l == LastLineWith(ls, k.key) IN
             l /= None =>
                 parsed.val[k.field] =
                     IF k.field = "network" THEN ParseIpNet(ValueAsClaimed(Unwrap(l)))
                     ELSE ParseIpAddr(ValueAsClaimed(Unwrap(l)))

\* POT_GATEWAY=3 then POT_NETWORK=2 (no prefix length): no network, the gateway kept
C9_Witness ==
    /\ op = "parse"
    /\ text = Join(<<K_POT_GATEWAY \o <<"3">>, K_POT_NETWORK \o <<"2">>>>)
    /\ parsed.ok
    /\ parsed.val.network = None
    /\ parsed.val.gateway = Some([fam |-> 4, val |-> 3])

(***************************************************************************)
(* Properties of the bridge registry                                       *)
(***************************************************************************)
\* the bridges get_bridges_list is to return for a listing: one for each
\* file that opens, reads and passes BridgeConf::from_str, in listing order
RECURSIVE BridgesIn(_)
BridgesIn(dir) ==
    IF dir = <<>> THEN <<>>
    ELSE LET e == Head(dir) IN
         IF e.kind = "file" /\ e.file.ok /\ BridgeConf_from_str(e.file.val).ok
         THEN <<BridgeConf_from_str(e.file.val).val>> \o BridgesIn(Tail(dir))
         ELSE BridgesIn(Tail(dir))

\* C4 (as claimed): get_bridges_list never fails as a whole, whatever the
\* configuration (valid or not, fs_root absent included) and the directory:
\* it returns exactly one BridgeConf for each enumerated file that opens,
\* reads and parses, and drops every other file.
C4_ListBridgesNeverFails ==
    op = "get_bridges_list" =>
        /\ bpc /= "panic"
        /\ (bpc = "done" => bresult = BridgesIn(bdir))

\* C6: BridgeConf::from_str succeeds exactly when the text yields a name, a
\* net that parses as a network and a gateway that parses as an address
\* inside that network, and then returns these three values unchanged; in
\* every other case it fails with BridgeConfError.
C6_LoadBridge ==
    op = "load_bridge" =>
        LET ls == ConfLines(btext)
            nl == LastLineWith(ls, K_name)
            tl == LastLineWith(ls, K_net)
            gl == LastLineWith(ls, K_gateway)
            name == IF IsSome(nl) THEN RawValue(Unwrap(nl)) ELSE None
            net == IF IsSome(tl) THEN NetField(Unwrap(tl)) ELSE None
            gw == IF IsSome(gl) THEN AddrField(Unwrap(gl)) ELSE None
            good == /\ IsSome(name) /\ IsSome(net) /\ IsSome(gw)
                    /\ Unwrap(net).addr.fam = Unwrap(gw).fam
                    /\ \E k \in 0..(Pow2(Unwrap(net).prefix) - 1) :
                         LET size == Pow2(AddrBits - Unwrap(net).prefix) IN
                         /\ k * size <= Unwrap(net).addr.val
                         /\ Unwrap(net).addr.val < (k + 1) * size
                         /\ k * size <= Unwrap(gw).val
                         /\ Unwrap(gw).val < (k + 1) * size
        IN  /\ bres.ok <=> good
            /\ bres.ok => bres.val = [name |-> Unwrap(name), network |-> Unwrap(net),
                                      gateway |-> Unwrap(gw)]
            /\ ~bres.ok => bres = Err("BridgeConfError")

\* net=2/1 with the gateway 1 outside it: rejected
C6_WitnessRejected ==
    /\ op = "load_bridge"
    /\ btext = Join(<<K_gateway \o <<"1">>, K_net \o <<"2", "/", "1">>, K_name \o <<"b">>>>)
    /\ ~bres.ok

\* net=2/1 with the gateway 3 inside it: accepted, the values unchanged
C6_Witness ==
    /\ op = "load_bridge"
    /\ btext = Join(<<K_name \o <<"b">>, K_net \o <<"2", "/", "1">>, K_gateway \o <<"3">>>>)
    /\ bres.ok
    /\ bres.val.gateway = [fam |-> 4, val |-> 3]

(***************************************************************************)
(* Properties of the pot inventory                                         *)
(***************************************************************************)
\* the value of key in a pot.conf text, read off the last line that starts
\* with key: what follows the key up to the next '=', None without such a line
KeyValue(conf_str, key) ==
    LET l == LastLineWith(Lines(conf_str), key) IN
    IF l = None THEN None
    ELSE Some(SplitNth0(SubSeq(Unwrap(l), Len(key) + 1, Len(Unwrap(l))), "="))

IsAddr(o) == o /= None /\ ParseIpAddr(Unwrap(o)) /= None

InV(name) == \E i \in 1..Len(v) : v[i].name = name

\* v holds one PotConf of that name, and it is this one
Has(name, network_type, ip_addr) ==
    /\ \E i \in 1..Len(v) : v[i] = PotConf(name, network_type, ip_addr)
    /\ Cardinality({i \in 1..Len(v) : v[i].name = name}) = 1

\* the loop is past the k-th directory
Processed(k) == k \in 1..Len(ppaths) /\ k < pi

\* the text of pot.conf has an IP-shaped field that is present but malformed:
\* ip under public-bridge/private-bridge, ip4 other than "inherit" under the
\* legacy schema
MalformedIp(conf_str) ==
    LET nt == KeyValue(conf_str, K_network_type)
        ip == KeyValue(conf_str, K_ip)
        ip4 == KeyValue(conf_str, K_ip4)
    IN  \/ /\ nt \in {Some(S_public_bridge), Some(S_private_bridge)}
           /\ ip /= None
           /\ ~IsAddr(ip)
        \/ /\ nt = None
           /\ ip4 /= None
           /\ ip4 /= Some(S_inherit)
           /\ ~IsAddr(ip4)

\* C2 (as claimed): a pot whose IP-shaped field is present but malformed
\* affects only its own entry: get_pot_conf_list does not terminate the
\* process, runs to completion, and returns every other pot that resolves.
C2_MalformedIpIsolated ==
    (/\ op = "get_pot_conf_list"
     /\ is_valid(pconf)
     /\ \A j \in 1..Len(jails) : jails[j].utf8
     /\ \E j \in 1..Len(jails) :
          jails[j].kind = "dir" /\ jails[j].file.ok /\ MalformedIp(jails[j].file.val))
    => /\ ppc /= "panic"
       /\ ppc = "done" =>
            \A j \in 1..Len(jails) :
                (/\ jails[j].kind = "dir"
                 /\ jails[j].file.ok
                 /\ ResolvePot(jails[j].file.val).kind = "push")
                => InV(DirNames[j])

\* C3 (as claimed): no PotConf returned by get_pot_conf_list has
\* network_type = Alias, under the new schema or the legacy one.
C3_NoAliasReturned ==
    op = "get_pot_conf_list" => \A i \in 1..Len(v) : v[i].network_type /= "Alias"

\* C3 (amended): a PotConf with network_type = Alias is never resolved from a
\* pot.conf that has a network_type key; every Alias in v comes from a legacy
\* pot.conf whose ip4 is an address and whose vnet is present and not "true".
C3_AliasOnlyFromLegacy ==
    op = "get_pot_conf_list" =>
        \A i \in 1..Len(v) :
            v[i].network_type = "Alias" =>
                \E k \in 1..Len(ppaths) :
                    LET e == jails[ppaths[k]] IN
                    /\ Processed(k)
                    /\ DirNames[ppaths[k]] = v[i].name
                    /\ e.file.ok
                    /\ KeyValue(e.file.val, K_network_type) = None
                    /\ IsAddr(KeyValue(e.file.val, K_ip4))
                    /\ KeyValue(e.file.val, K_vnet) \notin {None, Some(S_true)}

\* a finished enumeration that skipped a new-schema alias pot and returned a legacy one
C3_Witness ==
    /\ op = "get_pot_conf_list"
    /\ ppc = "done"
    /\ \E k \in 1..Len(ppaths) :
         /\ jails[ppaths[k]].file.ok
         /\ KeyValue(jails[ppaths[k]].file.val, K_network_type) = Some(S_alias)
         /\ ~InV(DirNames[ppaths[k]])
    /\ \E i \in 1..Len(v) : v[i].network_type = "Alias"

\* C7: legacy schema (no network_type key): without ip4 the pot is skipped;
\* ip4 = "inherit" gives {Inherit, no address} whatever vnet is; ip4 an
\* address gives {PublicBridge, ip4} with vnet = "true", {Alias, ip4} with
\* any other vnet, and is skipped without a vnet key.
C7_LegacySchema ==
    op = "get_pot_conf_list" =>
        \A k \in 1..Len(ppaths) :
            LET e == jails[ppaths[k]]
                name == DirNames[ppaths[k]]
            IN  (Processed(k) /\ e.file.ok /\ KeyValue(e.file.val, K_network_type) = None)
                => LET ip4 == KeyValue(e.file.val, K_ip4)
                       vnet == KeyValue(e.file.val, K_vnet)
                   IN  /\ ip4 = None => ~InV(name)
                       /\ ip4 = Some(S_inherit) => Has(name, "Inherit", None)
                       /\ IsAddr(ip4) =>
                            /\ vnet = Some(S_true) =>
                                 Has(name, "PublicBridge", ParseIpAddr(Unwrap(ip4)))
                            /\ vnet \notin {None, Some(S_true)} =>
                                 Has(name, "Alias", ParseIpAddr(Unwrap(ip4)))
                            /\ vnet = None => ~InV(name)

\* a legacy pot with an address and vnet=true, returned as PublicBridge
C7_Witness ==
    /\ op = "get_pot_conf_list"
    /\ ppc = "done"
    /\ jails = <<PotDir(Ok(Join(<<K_ip \o <<"2">>, K_ip4 \o <<"1">>, K_vnet \o S_true>>)))>>
    /\ v = <<PotConf("p1", "PublicBridge", Some([fam |-> 4, val |-> 1]))>>

\* C8: new schema (network_type key present): ip4 and vnet are never
\* consulted; "inherit" gives Inherit; "alias" and any string outside the
\* four names are skipped; "public-bridge"/"private-bridge" without ip are
\* skipped and with an address in ip give that type with that address.
C8_NewSchema ==
    op = "get_pot_conf_list" =>
        /\ \A k \in 1..Len(ppaths) :
             LET e == jails[ppaths[k]]
                 name == DirNames[ppaths[k]]
             IN  (Processed(k) /\ e.file.ok /\ KeyValue(e.file.val, K_network_type) /= None)
                 => LET nt == Unwrap(KeyValue(e.file.val, K_network_type))
                        ip == KeyValue(e.file.val, K_ip)
                    IN  /\ nt = S_inherit => Has(name, "Inherit", None)
                        /\ nt = S_alias => ~InV(name)
                        /\ nt \notin {S_inherit, S_alias, S_public_bridge, S_private_bridge}
                             => ~InV(name)
                        /\ (nt \in {S_public_bridge, S_private_bridge} /\ ip = None)
                             => ~InV(name)
                        /\ (nt = S_public_bridge /\ IsAddr(ip))
                             => Has(name, "PublicBridge", ParseIpAddr(Unwrap(ip)))
                        /\ (nt = S_private_bridge /\ IsAddr(ip))
                             => Has(name, "PrivateBridge", ParseIpAddr(Unwrap(ip)))
        /\ ppc = "panic" =>
             LET e == jails[ppaths[pi]] IN
             (e.utf8 /\ e.file.ok /\ KeyValue(e.file.val, K_network_type) /= None)
             => /\ KeyValue(e.file.val, K_network_type)
                     \in {Some(S_public_bridge), Some(S_private_bridge)}
                /\ KeyValue(e.file.val, K_ip) /= None
                /\ ~IsAddr(KeyValue(e.file.val, K_ip))

\* network_type=private-bridge with ip=2 next to a malformed ip4 and a vnet
C8_Witness ==
    /\ op = "get_pot_conf_list"
    /\ ppc = "done"
    /\ jails = <<PotDir(Ok(Join(<<K_network_type \o S_private_bridge, K_ip \o <<"2">>,
                                  K_ip4 \o <<"x">>, K_vnet \o S_true>>)))>>
    /\ v = <<PotConf("p1", "PrivateBridge", Some([fam |-> 4, val |-> 2]))>>

\* C11: with a configuration that is not valid (a field absent)
\* get_pot_conf_list returns the empty v without listing fs_root/jails or
\* reading a pot.conf; with a valid one every PotConf of v is that of a
\* directory of the listing, at most one for each directory.
C11_InvalidConfEmpty ==
    op = "get_pot_conf_list" =>
        /\ ~AllPresent(pconf) =>
             /\ ppc = "done"
             /\ v = <<>>
             /\ ppaths = <<>>
             /\ pi = 1
        /\ \A i \in 1..Len(v) :
             \E j \in 1..Len(jails) :
                 jails[j].kind = "dir" /\ DirNames[j] = v[i].name
        /\ \A i, j \in 1..Len(v) : v[i].name = v[j].name => i = j
        /\ Len(v) <= Len(ppaths)

\* a configuration with fs_root but no dns_ip, over a directory whose pot
\* would resolve: nothing is listed, nothing returned
C11_Witness ==
    /\ op = "get_pot_conf_list"
    /\ pconf = [ValidConfA EXCEPT !.dns_ip = None]
    /\ jails = <<PotDir(Ok(K_network_type \o S_inherit))>>
    /\ ppc = "done"
    /\ v = <<>>
    /\ ppaths = <<>>

\* C14: in every PotConf of v a PublicBridge or PrivateBridge has an ip_addr
\* and an Inherit has none, whatever ip or ip4 of its pot.conf holds; the
\* name is that of a directory of the walk whose pot.conf was read.
C14_TypeAddressCoupling ==
    op = "get_pot_conf_list" =>
        /\ \A i \in 1..Len(v) :
             /\ v[i].network_type \in {"PublicBridge", "PrivateBridge"}
                  => v[i].ip_addr /= None
             /\ v[i].network_type = "Inherit" => v[i].ip_addr = None
             /\ \E k \in 1..Len(ppaths) :
                  /\ Processed(k)
                  /\ v[i].name = DirNames[ppaths[k]]
                  /\ jails[ppaths[k]].kind = "dir"
                  /\ jails[ppaths[k]].file.ok
        /\ \A k \in 1..Len(ppaths) :
             LET e == jails[ppaths[k]]
                 name == DirNames[ppaths[k]]
             IN  (Processed(k) /\ e.file.ok)
                 => LET nt == KeyValue(e.file.val, K_network_type)
                        ip4 == KeyValue(e.file.val, K_ip4)
                    IN  (\/ nt = Some(S_inherit)
                         \/ (nt = None /\ ip4 = Some(S_inherit)))
                        => Has(name, "Inherit", None)

\* network_type=inherit next to ip=2 and ip4=1: Inherit with no address,
\* named after its directory
C14_Witness ==
    /\ op = "get_pot_conf_list"
    /\ ppc = "done"
    /\ jails = <<PotDir(Ok(Join(<<K_network_type \o S_inherit, K_ip \o <<"2">>,
                                  K_ip4 \o <<"1">>>>)))>>
    /\ v = <<PotConf("p1", "Inherit", None)>>

(***************************************************************************)
(* Properties of the run-state probe                                       *)
(***************************************************************************)
\* the names of the directories with a UTF-8 name in a listing, from entry j on
RECURSIVE NamesIn(_, _)
NamesIn(dir, j) ==
    IF j > Len(dir) THEN <<>>
    ELSE IF dir[j].kind = "dir" /\ dir[j].utf8
    THEN <<DirNames[j]>> \o NamesIn(dir, j + 1)
    ELSE NamesIn(dir, j + 1)

\* the names whose probe exited with success, among the names probed
RECURSIVE ExitedWithSuccess(_, _, _)
ExitedWithSuccess(names, outcomes, i) ==
    IF i > Len(outcomes) THEN <<>>
    ELSE IF outcomes[i] = "exit_success"
    THEN <<names[i]>> \o ExitedWithSuccess(names, outcomes, i + 1)
    ELSE ExitedWithSuccess(names, outcomes, i + 1)

\* C10: get_running_pot_list returns the names of get_pot_list whose probe
\* reports running, in enumeration order; a probe that cannot be spawned and
\* a non-success exit both count as not running for that name only, and
\* every name is probed.
C10_ListRunning ==
    (op = "get_running_pot_list" /\ rpc /= "panic") =>
        /\ rnames = NamesIn(rdir, 1)
        /\ Len(probes) = ri - 1
        /\ running = ExitedWithSuccess(rnames, probes, 1)
        /\ rpc = "done" => Len(probes) = Len(rnames)

\* three pots: jls cannot be spawned for the first, exits with failure for
\* the second, with success for the third
C10_Witness ==
    /\ op = "get_running_pot_list"
    /\ rpc = "done"
    /\ probes = <<"spawn_error", "exit_failure", "exit_success">>
    /\ running = <<"p3">>
====
